---- MODULE Spec2Model ----
(***************************************************************************)
(* State-machine model of the banking data feeder                          *)
(* (src/data-generator/faker_generator.py): connect_db with bounded retry, *)
(* run_iteration (one transactional batch of customers, accounts and       *)
(* transactions) and the module-level main loop with its exception         *)
(* handlers and finally clause.                                            *)
(*                                                                         *)
(* The database driver is the environment: every driver call (connect,     *)
(* execute, commit, rollback, close) draws its outcome from a small set.   *)
(* A session is one psycopg2 connection together with the cursor opened    *)
(* on it; rows written inside its open transaction are `pend` until a      *)
(* commit moves them to `visible`.                                         *)
(***************************************************************************)
EXTENDS Integers, Sequences, FiniteSets, TLC

\* ---------------------------------------------------------------------
\* Program constants
\* ---------------------------------------------------------------------
NUM_CUSTOMERS == 10

ACCOUNTS_PER_CUSTOMER == 2

NUM_TRANSACTIONS == 50

\* exit status of the sys.exit in the main finally clause
FinalStatus == 0

\* default of connect_db(retries=5, ...)
retries == 5

\* variant: connect_db ends in sys.exit(0)
FatalStatusSlip == FinalStatus

\* exit status of connect_db's sys.exit after the retry loop
FatalStatus == 1


\* ---------------------------------------------------------------------
\* Bounds of the model
\* ---------------------------------------------------------------------
\* number of iterations the continuous loop is followed for
MaxIter == 2

Iters == 1..MaxIter

NoExit == 0 - 1

VARIABLES
    pc,          \* control position of the script
    LOOP,        \* not args.once and DEFAULT_LOOP
    attempt,     \* connect_db: loop variable
    caller,      \* connect_db: active call site, "init" (line 100) or "handler" (line 189)
    tried,       \* connect_db: psycopg2.connect calls made by the active call
    slept,       \* connect_db: time.sleep calls made by the active call
    fatal,       \* call site whose connect_db ran out of attempts, or "none"
    sessions,    \* every session psycopg2.connect has returned, in order
    conn,        \* module global conn: index into sessions, 0 = unbound
    cur,         \* module global cur: index of the session its cursor belongs to
    iteration,   \* main loop counter
    customers,   \* run_iteration local: identities returned by customer inserts
    accounts,    \* run_iteration local: identities returned by account inserts
    owners,      \* customer_id passed to the insert that returned accounts[k]
    txn,         \* arguments built for the next transaction insert, or NoTxn
    txns,        \* run_iteration: transaction inserts done by the running call
    caught,      \* run_iteration: exception bound by its except clause
    exc,         \* exception in flight at module level
    intrAt,      \* control position at which KeyboardInterrupt was raised
    closeRaised, \* a close call of the finally clause raised
    visible,     \* committed rows, per iteration that wrote them
    commits,     \* conn.commit() calls, per iteration
    rollbacks,   \* conn.rollback() calls, per iteration
    committed,   \* iterations whose conn.commit() returned
    exitStatus,  \* process exit status, NoExit while running
    min_val,     \* random_money: argument, in cents
    max_val,     \* random_money: argument, in cents
    val,         \* random_money: the sampled decimal, in thousandths
    money,       \* random_money: returned value, in thousandths
    rpc,         \* connector registrar: control position
    rattempt,    \* create_connector: loop variable
    posts,       \* create_connector: outcome of every POST made, in order
    success,     \* create_connector: returned value
    rexit        \* connector registrar: exit status

\* state of faker_generator.py outside random_money
feederVars == <<pc, LOOP, attempt, caller, tried, slept, fatal, sessions, conn,
                cur, iteration, customers, accounts, owners, txn, txns, caught,
                exc, intrAt, closeRaised, visible, commits, rollbacks,
                committed, exitStatus>>

\* state of a random_money call
moneyVars == <<min_val, max_val, val, money>>

\* state of generate_and_post_connector.py
regVars == <<rpc, rattempt, posts, success, rexit>>

otherVars == <<moneyVars, regVars>>

vars == <<feederVars, moneyVars, regVars>>

connVars == <<attempt, caller, tried, slept, fatal>>

iterVars == <<customers, accounts, owners, txn, txns, caught>>

histVars == <<commits, rollbacks, committed>>

\* ---------------------------------------------------------------------
\* Rows and sessions
\* ---------------------------------------------------------------------
NoRows == [c |-> 0, a |-> 0, t |-> 0]

ZeroRows == [i \in Iters |-> NoRows]

FullRows == [c |-> NUM_CUSTOMERS,
             a |-> NUM_CUSTOMERS * ACCOUNTS_PER_CUSTOMER,
             t |-> NUM_TRANSACTIONS]

\* a connection as psycopg2.connect returns it, autocommit off
NewSession == [connOpen |-> TRUE, curOpen |-> FALSE, lost |-> FALSE,
               pend |-> ZeroRows, iters |-> 0]

AddRows(v, w) == [i \in Iters |-> [c |-> v[i].c + w[i].c,
                                   a |-> v[i].a + w[i].a,
                                   t |-> v[i].t + w[i].t]]

\* outcomes of a statement: success, a data/constraint error, the link to
\* the server failing, or an interface error of the driver
Outcomes == {"ok", "DataError", "OperationalError", "InterfaceError"}

Disconnects == {"OperationalError", "InterfaceError"}

\* what a statement on session s can do
ExecOutcomes(s) == IF s.lost \/ ~s.connOpen THEN Disconnects ELSE Outcomes

\* commit and rollback carry no data of their own
EndOutcomes(s) == IF s.lost \/ ~s.connOpen THEN Disconnects
                  ELSE {"ok", "OperationalError", "InterfaceError"}

\* the link is gone after an OperationalError; an InterfaceError may or may
\* not come from a dead link
LostAfter(s, o) == IF o = "OperationalError" THEN {TRUE}
                   ELSE IF o = "InterfaceError" THEN {s.lost, TRUE}
                   ELSE {s.lost}

\* ---------------------------------------------------------------------
\* Exception routing
\* ---------------------------------------------------------------------
\* variant: the clause names ProgrammingError alone
IterationCatchesNarrow(e) == e = "ProgrammingError"

\* variant: a bare except, which takes BaseException too
IterationCatchesAll(e) == TRUE

\* run_iteration: except (Exception, ProgrammingError). Every driver error is
\* an Exception; KeyboardInterrupt is a BaseException and is not caught.
IterationCatches(e) == e # "KeyboardInterrupt"

\* variant: every Exception is handled as a lost connection
MainHandlerReconnectsAll(e) ==
    IF e = "KeyboardInterrupt" THEN "interrupt"
    ELSE IF e = "SystemExit" THEN "none"
    ELSE "reconnect"

\* the except clauses of the main try statement, in order
MainHandler(e) ==
    IF e = "KeyboardInterrupt" THEN "interrupt"
    ELSE IF e = "InterfaceError" THEN "reconnect"
    ELSE IF e = "SystemExit" THEN "none"
    ELSE "unexpected"

\* variant: range(1, retries + 2)
MoreAttemptsSlip(a) == a <= retries

\* connect_db: range(1, retries + 1) has a value after a
MoreAttempts(a) == a < retries

\* variant: conn.commit() reached one transaction insert early
ReadyToCommitEarly == /\ Len(customers) = NUM_CUSTOMERS
                      /\ Len(accounts) = NUM_CUSTOMERS * ACCOUNTS_PER_CUSTOMER
                      /\ txns >= NUM_TRANSACTIONS - 1

\* run_iteration reaches conn.commit() when the three loops are done
ReadyToCommit == /\ Len(customers) = NUM_CUSTOMERS
                 /\ Len(accounts) = NUM_CUSTOMERS * ACCOUNTS_PER_CUSTOMER
                 /\ txns = NUM_TRANSACTIONS

\* identity the store returns for the k-th insert of a kind in iteration it
NewId(it, k) == <<it, k>>

\* the finally clause ends in sys.exit(0): the SystemExit it raises replaces
\* whatever exception e was in flight
ExitAfterFinally(e) == FinalStatus

\* session s with its uncommitted rows dropped
Discard(s) == [s EXCEPT !.pend = ZeroRows]

\* session s with one more row of kind f written by iteration it
AddRow(s, it, f) ==
    [s EXCEPT !.pend[it] =
        [c |-> @.c + (IF f = "c" THEN 1 ELSE 0),
         a |-> @.a + (IF f = "a" THEN 1 ELSE 0),
         t |-> @.t + (IF f = "t" THEN 1 ELSE 0)]]

\* no transaction arguments are held
NoTxn == [account_id |-> <<>>, txn_type |-> "none", related_account |-> <<>>]

\* None, as passed for related_account_id
None == <<>>

\* variant: every account is given the customer the first loop ended on
OwnerOfNextLast(custs, n) == custs[Len(custs)]

\* for customer_id in customers: for _ in range(ACCOUNTS_PER_CUSTOMER): the
\* customer_id of the insert made after n account inserts
OwnerOfNext(custs, n) == custs[(n \div ACCOUNTS_PER_CUSTOMER) + 1]

\* the elements of a list
Range(seq) == {seq[k] : k \in 1..Len(seq)}

\* txn_types = ["DEPOSIT", "WITHDRAWAL", "TRANSFER"]
txn_types == {"DEPOSIT", "WITHDRAWAL", "TRANSFER"}

\* variant: the counterparty is drawn from the whole pool
RelatedChoicesAny(pool, account_id, txn_type) ==
    IF txn_type = "TRANSFER" /\ Len(pool) > 1
      THEN Range(pool)
      ELSE {None}

\* variant: a lone account is its own counterparty
RelatedChoicesSelf(pool, account_id, txn_type) ==
    IF txn_type = "TRANSFER"
      THEN (IF Len(pool) > 1 THEN Range(pool) \ {account_id} ELSE {account_id})
      ELSE {None}

\* related_account = None; if txn_type == "TRANSFER" and len(accounts) > 1:
\* related_account = random.choice([a for a in accounts if a != account_id])
RelatedChoices(pool, account_id, txn_type) ==
    IF txn_type = "TRANSFER" /\ Len(pool) > 1
      THEN Range(pool) \ {account_id}
      ELSE {None}

\* variant: the pool is never emptied, accounts of earlier iterations stay
PoolAtStartKeeps(old) == old

\* accounts = [] at the start of run_iteration
PoolAtStart(old) == <<>>

\* the argument tuples one pass of the transaction loop can build from the
\* pool: account_id and txn_type by random.choice, then the counterparty
GeneratedTxns(pool) ==
    UNION {{[account_id |-> a, txn_type |-> t, related_account |-> r] :
              r \in RelatedChoices(pool, a, t)} :
           <<a, t>> \in Range(pool) \X txn_types}

\* random_money is not being called
MoneyIdle == /\ min_val = 0
             /\ max_val = 0
             /\ val = 0
             /\ money = 0

\* the connector registrar is not running
RegIdle == /\ rpc = "idle"
           /\ rattempt = 0
           /\ posts = <<>>
           /\ success = "none"
           /\ rexit = NoExit

\* ---------------------------------------------------------------------
\* Initial state: the script reaches conn = connect_db() (line 100)
\* ---------------------------------------------------------------------
FeederInit ==
    /\ pc = "connect_try"
    /\ LOOP \in BOOLEAN
    /\ attempt = 1
    /\ caller = "init"
    /\ tried = 0
    /\ slept = 0
    /\ fatal = "none"
    /\ sessions = <<>>
    /\ conn = 0
    /\ cur = 0
    /\ iteration = 0
    /\ customers = <<>>
    /\ accounts = <<>>
    /\ owners = <<>>
    /\ txn = NoTxn
    /\ txns = 0
    /\ caught = "none"
    /\ exc = "none"
    /\ intrAt = "none"
    /\ closeRaised = FALSE
    /\ visible = ZeroRows
    /\ commits = [i \in Iters |-> 0]
    /\ rollbacks = [i \in Iters |-> 0]
    /\ committed = {}
    /\ exitStatus = NoExit

Init ==
    /\ FeederInit
    /\ MoneyIdle
    /\ RegIdle

\* ---------------------------------------------------------------------
\* connect_db
\* ---------------------------------------------------------------------
\* psycopg2.connect succeeds: autocommit off, return conn; the caller binds
\* the module global conn
ConnectOk ==
    /\ UNCHANGED otherVars
    /\ pc = "connect_try"
    /\ tried' = tried + 1
    /\ sessions' = Append(sessions, NewSession)
    /\ conn' = Len(sessions) + 1
    /\ pc' = "cursor"
    /\ UNCHANGED <<LOOP, attempt, caller, slept, fatal, cur, iteration, iterVars,
                   exc, intrAt, closeRaised, visible, histVars, exitStatus>>

\* psycopg2.connect raises OperationalError: log a warning
ConnectFail ==
    /\ UNCHANGED otherVars
    /\ pc = "connect_try"
    /\ tried' = tried + 1
    /\ pc' = "connect_sleep"
    /\ UNCHANGED <<LOOP, attempt, caller, slept, fatal, sessions, conn, cur,
                   iteration, iterVars, exc, intrAt, closeRaised, visible,
                   histVars, exitStatus>>

\* time.sleep(delay), then the next value of the range or the end of the loop
ConnectSleep ==
    /\ UNCHANGED otherVars
    /\ pc = "connect_sleep"
    /\ slept' = slept + 1
    /\ IF MoreAttempts(attempt)
         THEN attempt' = attempt + 1 /\ pc' = "connect_try"
         ELSE attempt' = attempt /\ pc' = "connect_exit"
    /\ UNCHANGED <<LOOP, caller, tried, fatal, sessions, conn, cur, iteration,
                   iterVars, exc, intrAt, closeRaised, visible, histVars,
                   exitStatus>>

\* sys.exit(1) after the loop: at line 100 nothing encloses the call and the
\* process ends; at line 189 the SystemExit meets the finally clause
ConnectExit ==
    /\ UNCHANGED otherVars
    /\ pc = "connect_exit"
    /\ fatal' = caller
    /\ IF caller = "init"
         THEN /\ exitStatus' = FatalStatus
              /\ pc' = "exited"
              /\ exc' = exc
         ELSE /\ exitStatus' = exitStatus
              /\ exc' = "SystemExit"
              /\ pc' = "finally"
    /\ UNCHANGED <<LOOP, attempt, caller, tried, slept, sessions, conn, cur,
                   iteration, iterVars, intrAt, closeRaised, visible, histVars>>

\* cur = conn.cursor() (lines 101 and 190); line 101 is followed by the main
\* try statement, line 190 ends the InterfaceError handler. The locals of
\* the connect_db call that has returned are gone.
OpenCursor ==
    /\ UNCHANGED otherVars
    /\ pc = "cursor"
    /\ cur' = conn
    /\ sessions' = [sessions EXCEPT ![conn].curOpen = TRUE]
    /\ pc' = IF caller = "init" THEN "loop" ELSE "finally"
    /\ attempt' = 1
    /\ tried' = 0
    /\ slept' = 0
    /\ UNCHANGED <<LOOP, caller, fatal, conn, iteration, iterVars, exc, intrAt,
                   closeRaised, visible, histVars, exitStatus>>

\* ---------------------------------------------------------------------
\* The main try statement: exceptions reaching module level
\* ---------------------------------------------------------------------
\* exception e leaves the while loop: the matching except clause runs.
\* KeyboardInterrupt and unexpected errors are logged; InterfaceError calls
\* connect_db() from the handler; then the finally clause follows.
ToMain(e) ==
    /\ exc' = e
    /\ IF MainHandler(e) = "reconnect"
         THEN /\ pc' = "connect_try"
              /\ caller' = "handler"
              /\ attempt' = 1
              /\ tried' = 0
              /\ slept' = 0
         ELSE /\ pc' = "finally"
              /\ UNCHANGED <<caller, attempt, tried, slept>>
    /\ UNCHANGED fatal

\* a statement of run_iteration raises e: its except clause takes it, or it
\* leaves run_iteration
RaisedInIteration(e) ==
    IF IterationCatches(e)
      THEN /\ caught' = e
           /\ pc' = "except"
           /\ UNCHANGED <<connVars, exc>>
      ELSE /\ caught' = caught
           /\ ToMain(e)

\* ---------------------------------------------------------------------
\* Main loop and run_iteration
\* ---------------------------------------------------------------------
\* iteration += 1; run_iteration() is entered: customers = [], accounts = []
StartIteration ==
    /\ UNCHANGED otherVars
    /\ pc = "loop"
    /\ iteration < MaxIter
    /\ iteration' = iteration + 1
    /\ customers' = <<>>
    /\ accounts' = PoolAtStart(accounts)
    /\ owners' = <<>>
    /\ txn' = NoTxn
    /\ txns' = 0
    /\ caught' = "none"
    /\ sessions' = [sessions EXCEPT ![conn].iters = @ + 1]
    /\ pc' = "run"
    /\ UNCHANGED <<LOOP, connVars, conn, cur, exc, intrAt, closeRaised, visible,
                   histVars, exitStatus>>

\* one cur.execute(INSERT ...) of kind f: the row joins the open transaction
\* of the cursor's session, or the statement raises
Execute(f) ==
    \E o \in ExecOutcomes(sessions[cur]) :
      \E l \in LostAfter(sessions[cur], o) :
        IF o = "ok"
          THEN /\ sessions' = [sessions EXCEPT ![cur] = AddRow(@, iteration, f)]
               /\ customers' = IF f = "c"
                                  THEN Append(customers, NewId(iteration, Len(customers) + 1))
                                  ELSE customers
               /\ accounts' = IF f = "a"
                                 THEN Append(accounts, NewId(iteration, Len(accounts) + 1))
                                 ELSE accounts
               /\ owners' = IF f = "a"
                               THEN Append(owners, OwnerOfNext(customers, Len(accounts)))
                               ELSE owners
               /\ txns' = IF f = "t" THEN txns + 1 ELSE txns
               /\ pc' = "run"
               /\ UNCHANGED <<caught, connVars, exc>>
          ELSE /\ sessions' = [sessions EXCEPT ![cur].lost = l]
               /\ UNCHANGED <<customers, accounts, owners, txns>>
               /\ RaisedInIteration(o)

\* 1. for _ in range(NUM_CUSTOMERS): INSERT INTO customers ... RETURNING id
InsertCustomer ==
    /\ UNCHANGED otherVars
    /\ pc = "run"
    /\ Len(customers) < NUM_CUSTOMERS
    /\ Execute("c")
    /\ txn' = txn
    /\ UNCHANGED <<LOOP, conn, cur, iteration, intrAt, closeRaised, visible,
                   histVars, exitStatus>>

\* 2. for customer_id in customers: ACCOUNTS_PER_CUSTOMER inserts each
InsertAccount ==
    /\ UNCHANGED otherVars
    /\ pc = "run"
    /\ Len(customers) = NUM_CUSTOMERS
    /\ Len(accounts) < Len(customers) * ACCOUNTS_PER_CUSTOMER
    /\ Execute("a")
    /\ txn' = txn
    /\ UNCHANGED <<LOOP, conn, cur, iteration, intrAt, closeRaised, visible,
                   histVars, exitStatus>>

\* 3. for _ in range(NUM_TRANSACTIONS): the arguments of the next insert are
\* drawn (lines 146-151)
GenerateTransaction ==
    /\ UNCHANGED otherVars
    /\ pc = "run"
    /\ Len(customers) = NUM_CUSTOMERS
    /\ Len(accounts) = Len(customers) * ACCOUNTS_PER_CUSTOMER
    /\ txns < NUM_TRANSACTIONS
    /\ txn = NoTxn
    /\ txn' \in GeneratedTxns(accounts)
    /\ UNCHANGED <<pc, LOOP, connVars, sessions, conn, cur, iteration,
                   customers, accounts, owners, txns, caught, exc, intrAt,
                   closeRaised, visible, histVars, exitStatus>>

\* INSERT INTO transactions with the arguments drawn (lines 153-159); the
\* loop variables are dead once the statement has run
InsertTransaction ==
    /\ UNCHANGED otherVars
    /\ pc = "run"
    /\ txn # NoTxn
    /\ Execute("t")
    /\ txn' = NoTxn
    /\ UNCHANGED <<LOOP, conn, cur, iteration, intrAt, closeRaised, visible,
                   histVars, exitStatus>>

\* conn.commit(): every row of the open transaction becomes visible at once
Commit ==
    /\ UNCHANGED otherVars
    /\ pc = "run"
    /\ ReadyToCommit
    /\ commits' = [commits EXCEPT ![iteration] = @ + 1]
    /\ \E o \in ExecOutcomes(sessions[conn]) :
         \E l \in LostAfter(sessions[conn], o) :
           IF o = "ok"
             THEN /\ visible' = AddRows(visible, sessions[conn].pend)
                  /\ committed' = committed \cup {iteration}
                  /\ sessions' = [sessions EXCEPT ![conn] = Discard(@)]
                  /\ pc' = "finished"
                  /\ UNCHANGED <<caught, connVars, exc>>
             ELSE /\ visible' = visible
                  /\ committed' = committed
                  /\ sessions' = [sessions EXCEPT ![conn].lost = l]
                  /\ RaisedInIteration(o)
    /\ UNCHANGED <<LOOP, conn, cur, iteration, customers, accounts, owners, txn,
                   txns, intrAt, closeRaised, rollbacks, exitStatus>>

\* except clause of run_iteration: conn.rollback(), then log and return; an
\* error raised by the rollback leaves run_iteration
Rollback ==
    /\ UNCHANGED otherVars
    /\ pc = "except"
    /\ rollbacks' = [rollbacks EXCEPT ![iteration] = @ + 1]
    /\ \E o \in EndOutcomes(sessions[conn]) :
         \E l \in LostAfter(sessions[conn], o) :
           IF o = "ok"
             THEN /\ sessions' = [sessions EXCEPT ![conn] = Discard(@)]
                  /\ pc' = "finished"
                  /\ UNCHANGED <<connVars, exc>>
             ELSE /\ sessions' = [sessions EXCEPT ![conn].lost = l]
                  /\ ToMain(o)
    /\ UNCHANGED <<LOOP, conn, cur, iteration, iterVars, intrAt, closeRaised,
                   visible, commits, committed, exitStatus>>

\* variant: the break is missing
AfterIterationNoBreak(loop) == "sleep"

\* after run_iteration() returned: if not LOOP: break, which leaves the try
\* body for the finally clause; otherwise time.sleep(SLEEP_SECONDS)
AfterIteration(loop) == IF loop THEN "sleep" ELSE "finally"

\* run_iteration has returned: if not LOOP: break, else time.sleep
Finished ==
    /\ UNCHANGED otherVars
    /\ pc = "finished"
    /\ pc' = AfterIteration(LOOP)
    /\ UNCHANGED <<LOOP, connVars, sessions, conn, cur, iteration, iterVars,
                   exc, intrAt, closeRaised, visible, histVars, exitStatus>>

\* time.sleep(SLEEP_SECONDS) returns: back to while True
Sleep ==
    /\ UNCHANGED otherVars
    /\ pc = "sleep"
    /\ pc' = "loop"
    /\ UNCHANGED <<LOOP, connVars, sessions, conn, cur, iteration, iterVars,
                   exc, intrAt, closeRaised, visible, histVars, exitStatus>>

\* KeyboardInterrupt raised inside the while loop: inside run_iteration
\* (its body or its except clause), between statements of the loop, or
\* during the sleep
Interrupt ==
    /\ UNCHANGED otherVars
    /\ pc \in {"loop", "run", "except", "finished", "sleep"}
    /\ intrAt' = pc
    /\ IF pc = "run"
         THEN RaisedInIteration("KeyboardInterrupt")
         ELSE caught' = caught /\ ToMain("KeyboardInterrupt")
    /\ txn' = NoTxn
    /\ UNCHANGED <<LOOP, sessions, conn, cur, iteration, customers, accounts,
                   owners, txns, closeRaised, visible, histVars, exitStatus>>

\* KeyboardInterrupt raised while the InterfaceError handler runs connect_db
\* or conn.cursor(): it leaves the handler and meets the finally clause
InterruptHandler ==
    /\ UNCHANGED otherVars
    /\ pc \in {"connect_try", "connect_sleep", "connect_exit", "cursor"}
    /\ caller = "handler"
    /\ intrAt' = "handler"
    /\ exc' = "KeyboardInterrupt"
    /\ pc' = "finally"
    /\ UNCHANGED <<LOOP, connVars, sessions, conn, cur, iteration, iterVars,
                   closeRaised, visible, histVars, exitStatus>>

\* ---------------------------------------------------------------------
\* finally clause
\* ---------------------------------------------------------------------
\* cur.close(): when it raises, except Exception: pass skips conn.close()
CloseCursor ==
    /\ UNCHANGED otherVars
    /\ pc = "finally"
    /\ \E o \in {"ok", "raise"} :
         IF o = "ok"
           THEN /\ sessions' = [sessions EXCEPT ![cur].curOpen = FALSE]
                /\ closeRaised' = closeRaised
                /\ pc' = "finally_conn"
           ELSE /\ sessions' = sessions
                /\ closeRaised' = TRUE
                /\ pc' = "exit0"
    /\ UNCHANGED <<LOOP, connVars, conn, cur, iteration, iterVars, exc, intrAt,
                   visible, histVars, exitStatus>>

\* conn.close(): the open transaction, if any, is discarded by the server
CloseConn ==
    /\ UNCHANGED otherVars
    /\ pc = "finally_conn"
    /\ \E o \in {"ok", "raise"} :
         IF o = "ok"
           THEN /\ sessions' = [sessions EXCEPT
                                  ![conn] = [Discard(@) EXCEPT !.connOpen = FALSE]]
                /\ closeRaised' = closeRaised
           ELSE /\ sessions' = sessions
                /\ closeRaised' = TRUE
    /\ pc' = "exit0"
    /\ UNCHANGED <<LOOP, connVars, conn, cur, iteration, iterVars, exc, intrAt,
                   visible, histVars, exitStatus>>

\* sys.exit(0), the last statement of the finally clause
Exit ==
    /\ UNCHANGED otherVars
    /\ pc = "exit0"
    /\ exitStatus' = ExitAfterFinally(exc)
    /\ pc' = "exited"
    /\ UNCHANGED <<LOOP, connVars, sessions, conn, cur, iteration, iterVars,
                   exc, intrAt, closeRaised, visible, histVars>>

Next ==
    \/ ConnectOk
    \/ ConnectFail
    \/ ConnectSleep
    \/ ConnectExit
    \/ OpenCursor
    \/ StartIteration
    \/ InsertCustomer
    \/ InsertAccount
    \/ GenerateTransaction
    \/ InsertTransaction
    \/ Commit
    \/ Rollback
    \/ Finished
    \/ Sleep
    \/ Interrupt
    \/ InterruptHandler
    \/ CloseCursor
    \/ CloseConn
    \/ Exit

Spec == Init /\ [][Next]_vars

\* connect_db is straight-line code around a blocking driver call that
\* returns or raises: an enabled step of it is eventually taken
ConnectStep == ConnectOk \/ ConnectFail \/ ConnectSleep \/ ConnectExit

FairSpec == Spec /\ WF_vars(ConnectStep)

\* ---------------------------------------------------------------------
\* The transaction loop over pools of any size
\* ---------------------------------------------------------------------
\* largest account pool the loop is run on
MaxPool == 3

\* run_iteration at the start of its transaction loop (line 145) in the
\* first iteration, with n accounts in the pool, n drawn from 1..MaxPool:
\* the loop as a function of the pool it is given
PoolInit ==
    /\ pc = "run"
    /\ LOOP \in BOOLEAN
    /\ attempt = 1
    /\ caller = "init"
    /\ tried = 0
    /\ slept = 0
    /\ fatal = "none"
    /\ conn = 1
    /\ cur = 1
    /\ iteration = 1
    /\ customers = <<NewId(1, 1)>>
    /\ \E n \in 1..MaxPool :
         /\ accounts = [k \in 1..n |-> NewId(1, k)]
         /\ owners = [k \in 1..n |-> NewId(1, 1)]
         /\ sessions = <<[NewSession EXCEPT
                             !.curOpen = TRUE,
                             !.iters = 1,
                             !.pend = [ZeroRows EXCEPT
                                         ![1] = [c |-> 1, a |-> n, t |-> 0]]]>>
    /\ txn = NoTxn
    /\ txns = 0
    /\ caught = "none"
    /\ exc = "none"
    /\ intrAt = "none"
    /\ closeRaised = FALSE
    /\ visible = ZeroRows
    /\ commits = [i \in Iters |-> 0]
    /\ rollbacks = [i \in Iters |-> 0]
    /\ committed = {}
    /\ exitStatus = NoExit
    /\ MoneyIdle
    /\ RegIdle

\* one pass of for _ in range(NUM_TRANSACTIONS) up to the insert: the
\* arguments are drawn from the pool (lines 146-151)
PoolGenerate ==
    /\ UNCHANGED otherVars
    /\ pc = "run"
    /\ txns < NUM_TRANSACTIONS
    /\ txn = NoTxn
    /\ txn' \in GeneratedTxns(accounts)
    /\ UNCHANGED <<pc, LOOP, connVars, sessions, conn, cur, iteration,
                   customers, accounts, owners, txns, caught, exc, intrAt,
                   closeRaised, visible, histVars, exitStatus>>

PoolNext ==
    \/ PoolGenerate
    \/ InsertTransaction

PoolSpec == PoolInit /\ [][PoolNext]_vars

\* ---------------------------------------------------------------------
\* random_money
\* ---------------------------------------------------------------------
\* Money is counted in thousandths: a Decimal with two fractional digits is
\* a multiple of SubCent. The sample keeps digits below the cent.
SubCent == 10

\* bounds are drawn from 0.00 .. MaxCents/100, and from the pair around the
\* documented sample 12.347
MaxCents == 4

ExampleCents == 1234

NoMoney == 0 - 1

\* variant: quantize with ROUND_HALF_UP
QuantizeHalfUp(x) == ((x + SubCent \div 2) \div SubCent) * SubCent

\* val.quantize(Decimal("0.01"), rounding=ROUND_DOWN): digits below the cent
\* are dropped, toward zero
QuantizeDown(x) ==
    IF x >= 0 THEN (x \div SubCent) * SubCent
    ELSE 0 - (((0 - x) \div SubCent) * SubCent)

\* random_money(min_val, max_val) is called with two-digit bounds
MoneyInit ==
    /\ FeederInit
    /\ RegIdle
    /\ \/ /\ min_val \in 0..MaxCents
          /\ max_val \in min_val..MaxCents
       \/ /\ min_val \in {ExampleCents, ExampleCents + 1}
          /\ max_val \in {ExampleCents + 1}
    /\ val = NoMoney
    /\ money = NoMoney

\* val = Decimal(str(random.uniform(float(min_val), float(max_val)))): a
\* decimal between the bounds, with digits below the cent
Sample ==
    /\ val = NoMoney
    /\ val' \in (min_val * SubCent)..(max_val * SubCent)
    /\ UNCHANGED <<feederVars, regVars, min_val, max_val, money>>

\* return val.quantize(Decimal("0.01"), rounding=ROUND_DOWN)
Quantize ==
    /\ val # NoMoney
    /\ money = NoMoney
    /\ money' = QuantizeDown(val)
    /\ UNCHANGED <<feederVars, regVars, min_val, max_val, val>>

MoneyNext ==
    \/ Sample
    \/ Quantize

MoneySpec == MoneyInit /\ [][MoneyNext]_vars

\* ---------------------------------------------------------------------
\* Connector registrar (src/kafka-debezium/generate_and_post_connector.py)
\* ---------------------------------------------------------------------
\* default of create_connector(config, retries=5, delay=3)
connector_retries == 5

\* what one requests.post call can do: a response with a status code, a
\* connection-level failure, or another RequestException
PostOutcomes ==
    {[kind |-> "response", status |-> c] : c \in {200, 201, 400, 409, 500}}
    \cup {[kind |-> k, status |-> 0] :
            k \in {"ConnectionError", "Timeout", "RequestException"}}

\* variant: 409 is not taken as success
StatusIsSuccessCreatedOnly(code) == code = 201

\* if response.status_code == 201 ... elif response.status_code == 409
StatusIsSuccess(code) == code \in {201, 409}

\* except (ConnectionError, Timeout): warn, sleep and go on with the loop
IsRetried(o) == o.kind \in {"ConnectionError", "Timeout"}

\* variant: range(1, retries + 2)
MorePostsSlip(a) == a <= connector_retries

\* for attempt in range(1, retries + 1) has a value after a
MorePosts(a) == a < connector_retries

\* __main__ calls create_connector(connector_config)
RegInit ==
    /\ FeederInit
    /\ MoneyIdle
    /\ rpc = "post"
    /\ rattempt = 1
    /\ posts = <<>>
    /\ success = "none"
    /\ rexit = NoExit

\* requests.post(...) of the current attempt and the branch taken on its
\* outcome: return True, return False, or the retry handler
Post ==
    /\ rpc = "post"
    /\ \E o \in PostOutcomes :
         /\ posts' = Append(posts, o)
         /\ IF o.kind = "response"
              THEN /\ success' = IF StatusIsSuccess(o.status) THEN "True" ELSE "False"
                   /\ rpc' = "returned"
              ELSE IF IsRetried(o)
                THEN /\ success' = success
                     /\ rpc' = "sleep"
                ELSE /\ success' = "False"
                     /\ rpc' = "returned"
    /\ UNCHANGED <<feederVars, moneyVars, rattempt, rexit>>

\* time.sleep(delay), then the next value of the range or the end of the loop
PostSleep ==
    /\ rpc = "sleep"
    /\ IF MorePosts(rattempt)
         THEN rattempt' = rattempt + 1 /\ rpc' = "post"
         ELSE rattempt' = rattempt /\ rpc' = "exhausted"
    /\ UNCHANGED <<feederVars, moneyVars, posts, success, rexit>>

\* after the loop: log critical, return False
PostExhausted ==
    /\ rpc = "exhausted"
    /\ success' = "False"
    /\ rpc' = "returned"
    /\ UNCHANGED <<feederVars, moneyVars, rattempt, posts, rexit>>

\* __main__: sys.exit(1) if not success else sys.exit(0)
RegExit ==
    /\ rpc = "returned"
    /\ rexit' = IF success = "True" THEN 0 ELSE 1
    /\ rpc' = "exited"
    /\ UNCHANGED <<feederVars, moneyVars, rattempt, posts, success>>

RegNext ==
    \/ Post
    \/ PostSleep
    \/ PostExhausted
    \/ RegExit

RegSpec == RegInit /\ [][RegNext]_vars

\* the registrar is straight-line code around a POST with timeout=10 and a
\* bounded sleep: an enabled step is eventually taken
RegFairSpec == RegSpec /\ WF_vars(RegNext)

\* ---------------------------------------------------------------------
\* Type invariant
\* ---------------------------------------------------------------------
TypeOK ==
    /\ pc \in {"connect_try", "connect_sleep", "connect_exit", "cursor", "loop",
               "run", "except", "finished", "sleep", "finally", "finally_conn",
               "exit0", "exited"}
    /\ LOOP \in BOOLEAN
    /\ attempt \in 1..retries
    /\ caller \in {"init", "handler"}
    /\ conn \in 0..Len(sessions)
    /\ cur \in 0..Len(sessions)
    /\ iteration \in 0..MaxIter
    /\ exitStatus \in {NoExit, 0, 1}

\* ---------------------------------------------------------------------
\* Derived state
\* ---------------------------------------------------------------------
InFinally == pc \in {"finally", "finally_conn", "exit0", "exited"}

InConnect == pc \in {"connect_try", "connect_sleep", "connect_exit"}

\* conn.commit() of iteration i was called and returned
Committed(i) == i \in committed

\* session number k is fully released
Released(k) == /\ ~sessions[k].connOpen
               /\ ~sessions[k].curOpen
               /\ sessions[k].pend = ZeroRows

\* ---------------------------------------------------------------------
\* Claims
\* ---------------------------------------------------------------------

\* C1: run_iteration is atomic. For every iteration the visible rows are
\* either none or exactly NUM_CUSTOMERS customers, NUM_CUSTOMERS x
\* ACCOUNTS_PER_CUSTOMER accounts and NUM_TRANSACTIONS transactions; they
\* are the full set exactly when its commit returned, and none when the
\* commit was never reached (an insert failed at some position) or raised.
C1_Atomicity ==
    \A i \in Iters :
        /\ visible[i] \in {NoRows, FullRows}
        /\ (Committed(i) <=> visible[i] = FullRows)
        /\ (commits[i] = 0 => visible[i] = NoRows)
        /\ (visible[i] = FullRows =>
              /\ FullRows.c = 10
              /\ FullRows.a = 20
              /\ FullRows.t = 50)

\* C1 witness: the first iteration failed on its 5th transaction insert and
\* was rolled back, the second one committed and only its rows are visible
C1_Witness ==
    /\ iteration = 2
    /\ rollbacks[1] = 1
    /\ commits[1] = 0
    /\ visible[1] = NoRows
    /\ Committed(2)
    /\ visible[2] = FullRows

\* C2: a data error raised by a statement of run_iteration never reaches
\* module level; it is taken by the except clause of run_iteration, whose
\* rollback empties the transaction, run_iteration returns normally, and in
\* continuous mode the loop sleeps and starts the next iteration. (Steps in
\* which a further exception is raised, by the rollback itself or by the
\* user, are those of that further exception.)
C2_DataErrorContained ==
    /\ [](exc # "DataError")
    /\ [](caught = "DataError" /\ exc = "none" => exitStatus = NoExit \/ ~LOOP)
    /\ [][(caught = "DataError" /\ exc' = "none") =>
            CASE pc = "except" ->
                   /\ pc' = "finished"
                   /\ rollbacks'[iteration] = rollbacks[iteration] + 1
                   /\ sessions'[conn].pend = ZeroRows
                   /\ visible' = visible
                   /\ exitStatus' = NoExit
              [] pc = "finished" -> pc' = (IF LOOP THEN "sleep" ELSE "finally")
              [] pc = "sleep" -> pc' = "loop"
              [] pc = "loop" -> pc' = "run" /\ iteration' = iteration + 1
              [] OTHER -> TRUE]_vars

\* C2 witness: continuous mode, the data error of iteration 1 was rolled
\* back and the loop is back at its top with the process running
C2_Witness ==
    /\ LOOP
    /\ pc = "loop"
    /\ iteration = 1
    /\ caught = "DataError"
    /\ rollbacks[1] = 1
    /\ txns = 4
    /\ sessions[conn].pend = ZeroRows
    /\ exitStatus = NoExit

\* C3 (as claimed): in continuous mode, once a reconnect has succeeded, the
\* process does not stop before an iteration has run on the new session
C3_ResumesAfterReconnect ==
    (pc = "exited" /\ LOOP /\ Len(sessions) = 2 /\ iteration < MaxIter)
        => sessions[2].iters >= 1

\* C4 (as claimed): an InterfaceError raised by an insert or the commit of
\* run_iteration is never swallowed: run_iteration does not return normally
\* from handling it
C4_InterfaceErrorPropagates ==
    [][(pc = "except" /\ caught = "InterfaceError") => pc' # "finished"]_vars

\* C5: when every attempt of the initial connect_db call failed, the process
\* ends with status 1, no iteration was started and no row was written
C5_InitialConnectFatal ==
    (caller = "init" /\ sessions = <<>> /\ tried = retries) =>
        /\ pc \in {"connect_sleep", "connect_exit", "exited"}
        /\ iteration = 0
        /\ visible = ZeroRows
        /\ (pc = "exited" <=> exitStatus = 1)
        /\ (pc # "exited" <=> exitStatus = NoExit)
        /\ (fatal = "init" <=> pc = "exited")

\* C5 witness: the process has ended after the fifth failed initial attempt
C5_Witness ==
    /\ fatal = "init"
    /\ pc = "exited"
    /\ tried = 5
    /\ exitStatus = 1

\* C6 (as claimed): when connect_db runs out of attempts in the
\* disconnection handler, the process ends with status 1
C6_ReconnectFatal ==
    (pc = "exited" /\ fatal = "handler") => exitStatus = 1

\* C7: connect_db always terminates. It makes at most `retries` attempts; it
\* returns on the first successful attempt, with one sleep per failed
\* attempt before it and none after; it reaches sys.exit(1) only after
\* exactly `retries` failed attempts; and a call never stays in its loop
\* forever.
C7_ConnectTerminates ==
    /\ [](tried <= retries /\ attempt <= retries)
    /\ [](pc = "cursor" => tried = attempt /\ slept = tried - 1)
    /\ [](pc = "connect_exit" => tried = retries /\ slept = retries)
    /\ [](fatal # "none" => tried = retries)
    /\ (InConnect ~> ~InConnect)

\* C7 witness: the call has just returned a session on its third attempt
C7_Witness ==
    /\ pc = "cursor"
    /\ tried = 3
    /\ slept = 2

\* C8 (as claimed): an interrupt raised while run_iteration is in flight
\* does not end the process before that iteration has called conn.commit()
\* or conn.rollback()
C8_InterruptAfterIteration ==
    (pc = "exited" /\ intrAt = "run") =>
        commits[iteration] + rollbacks[iteration] >= 1

\* C9: after a KeyboardInterrupt raised in the main loop (inside an
\* iteration, between statements or during the sleep) control is in the
\* finally clause, no further iteration is started, cur.close() and
\* conn.close() close the session (unless a close call itself raises) and
\* the process ends with status 0.
C9_InterruptShutsDown ==
    /\ [](intrAt \in {"loop", "run", "except", "finished", "sleep"} =>
            /\ InFinally
            /\ exc = "KeyboardInterrupt"
            /\ exitStatus \in {NoExit, 0}
            /\ (pc = "exited" =>
                  /\ exitStatus = 0
                  /\ (~closeRaised => ~sessions[cur].curOpen
                                       /\ ~sessions[conn].connOpen)))
    /\ [][intrAt # "none" => iteration' = iteration]_vars

\* C9 witness: interrupted between two transaction inserts of iteration 1;
\* the process has ended with status 0 and the session closed
C9_Witness ==
    /\ pc = "exited"
    /\ intrAt = "run"
    /\ iteration = 1
    /\ txns = 4
    /\ exitStatus = 0
    /\ ~sessions[conn].connOpen
    /\ ~sessions[cur].curOpen

\* C10 (as claimed): when the process has ended, every session connect_db
\* returned is closed, its cursor too, and no transaction is open
C10_AllSessionsReleased ==
    pc = "exited" => \A k \in 1..Len(sessions) : Released(k)

\* C11: in single-shot mode the loop never sleeps and never starts a second
\* iteration, and a run that entered the loop and was not interrupted before
\* its iteration ends after exactly one iteration with status 0. In
\* continuous mode an iteration that returned is followed by the sleep and
\* then by the next iteration. An iteration starts only at the top of the
\* loop, after the previous one committed or rolled back, with no
\* uncommitted row left.
C11_ModeControlsLoop ==
    /\ [](~LOOP => iteration <= 1 /\ pc # "sleep")
    /\ []((~LOOP /\ pc = "exited" /\ fatal # "init" /\ intrAt # "loop") =>
            iteration = 1 /\ exitStatus = 0)
    /\ [][(pc = "finished" /\ exc' = "none") =>
            pc' = (IF LOOP THEN "sleep" ELSE "finally")]_vars
    /\ [][(pc = "sleep" /\ exc' = "none") => pc' = "loop"]_vars
    /\ [][(pc = "loop" /\ exc' = "none") => pc' = "run"]_vars
    /\ [][iteration' # iteration =>
            /\ iteration' = iteration + 1
            /\ pc = "loop"
            /\ pc' = "run"
            /\ (iteration >= 1 =>
                  /\ LOOP
                  /\ Committed(iteration) \/ rollbacks[iteration] >= 1
                  /\ sessions[conn].pend = ZeroRows)]_vars

\* C11 witness: single-shot mode, the only iteration was rolled back and the
\* process has ended with status 0
C11_Witness ==
    /\ ~LOOP
    /\ pc = "exited"
    /\ iteration = 1
    /\ rollbacks[1] = 1
    /\ exc = "none"
    /\ exitStatus = 0

\* C18: an error other than KeyboardInterrupt and InterfaceError that leaves
\* run_iteration (conn.rollback() raising OperationalError) takes control to
\* the finally clause: no iteration is started afterwards, the session is
\* closed (unless a close call itself raises) and the process ends with
\* status 0.
C18_UnexpectedErrorStops ==
    /\ [](exc = "OperationalError" =>
            /\ InFinally
            /\ exitStatus \in {NoExit, 0}
            /\ (pc = "exited" =>
                  /\ exitStatus = 0
                  /\ (~closeRaised => ~sessions[cur].curOpen
                                       /\ ~sessions[conn].connOpen)))
    /\ [][exc = "OperationalError" => iteration' = iteration]_vars

\* C18 witness: conn.rollback() of iteration 1 raised OperationalError in
\* continuous mode; the process has ended with status 0, session closed
C18_Witness ==
    /\ LOOP
    /\ pc = "exited"
    /\ exc = "OperationalError"
    /\ iteration = 1
    /\ rollbacks[1] = 1
    /\ exitStatus = 0
    /\ ~sessions[conn].connOpen
    /\ ~sessions[cur].curOpen

\* C20: within one run_iteration call conn.commit() is called at most once
\* and only with all customer, account and transaction inserts done;
\* conn.rollback() is called at most once, and exactly when a statement of
\* the call raised an Exception (the rollback being the next statement of
\* the except clause); no insert follows the first failure.
C20_CommitRollbackDiscipline ==
    /\ [](\A i \in Iters : commits[i] <= 1 /\ rollbacks[i] <= 1)
    /\ [](iteration >= 1 =>
            /\ (commits[iteration] = 1 =>
                  /\ Len(customers) = 10
                  /\ Len(accounts) = 20
                  /\ txns = 50)
            /\ (rollbacks[iteration] = 1 =>
                  caught \in {"DataError", "OperationalError", "InterfaceError"})
            /\ ((caught # "none" /\ pc # "except" /\ intrAt # "except") =>
                  rollbacks[iteration] = 1)
            /\ (Committed(iteration) => rollbacks[iteration] = 0))
    /\ [][(pc = "except" /\ exc' # "KeyboardInterrupt") =>
            rollbacks'[iteration] = rollbacks[iteration] + 1]_vars
    /\ [][(caught # "none" /\ iteration' = iteration) =>
            /\ customers' = customers
            /\ accounts' = accounts
            /\ txns' = txns
            /\ commits' = commits
            /\ visible' = visible]_vars

\* C20 witness: the commit of iteration 1 raised after all 80 inserts and
\* the rollback was called once
C20_Witness ==
    /\ iteration = 1
    /\ commits[1] = 1
    /\ rollbacks[1] = 1
    /\ txns = 50
    /\ pc = "finished"
    /\ visible[1] = NoRows

\* C12: foreign-key order inside an iteration. An account exists only when
\* all NUM_CUSTOMERS customer inserts succeeded, transaction arguments are
\* built only when all account inserts succeeded; every account's
\* customer_id is an identity returned by a customer insert of the same
\* iteration, no customer has more than ACCOUNTS_PER_CUSTOMER accounts and,
\* once the account loop is done, each has exactly that many.
C12_ForeignKeyOrder ==
    /\ (Len(accounts) > 0 => Len(customers) = 10)
    /\ ((txns > 0 \/ txn # NoTxn) => Len(accounts) = 20)
    /\ Len(owners) = Len(accounts)
    /\ \A k \in 1..Len(accounts) :
          /\ owners[k] \in Range(customers)
          /\ owners[k][1] = iteration
    /\ \A j \in 1..Len(customers) :
          /\ customers[j][1] = iteration
          /\ Cardinality({k \in 1..Len(owners) : owners[k] = customers[j]}) <= 2
          /\ (Len(accounts) = 20 =>
                Cardinality({k \in 1..Len(owners) : owners[k] = customers[j]}) = 2)
    /\ (pc = "run" =>
          sessions[cur].pend[iteration] =
              [c |-> Len(customers), a |-> Len(accounts), t |-> txns])

\* C12 witness: second iteration, all 20 accounts inserted, the first
\* transaction insert done
C12_Witness ==
    /\ pc = "run"
    /\ iteration = 2
    /\ Len(customers) = 10
    /\ Len(accounts) = 20
    /\ txns = 1

\* C13: the account pool is scoped to the iteration. It is empty while the
\* customers of an iteration are being inserted, it only ever holds
\* identities returned by account inserts of the running iteration, and the
\* account_id and (when set) related_account_id of every transaction are
\* taken from it.
C13_PoolScopedToIteration ==
    /\ ((pc = "run" /\ Len(customers) < 10) => accounts = <<>>)
    /\ \A k \in 1..Len(accounts) : accounts[k] = <<iteration, k>>
    /\ (txn # NoTxn =>
          /\ txn.account_id \in Range(accounts)
          /\ txn.account_id[1] = iteration
          /\ (txn.related_account # None =>
                /\ txn.related_account \in Range(accounts)
                /\ txn.related_account[1] = iteration))

\* C13 witness: iteration 1 committed; a TRANSFER of iteration 2 has been
\* built with a counterparty
C13_Witness ==
    /\ iteration = 2
    /\ Committed(1)
    /\ txn # NoTxn
    /\ txn.txn_type = "TRANSFER"
    /\ txn.related_account # None
    /\ txns = 3

\* C14: for every transaction built, related_account_id is set only when
\* the kind is TRANSFER; when set it is an account of the pool other than
\* account_id; and with at least two accounts in the pool every TRANSFER
\* has it set.
C14_RelatedAccount ==
    txn # NoTxn =>
        /\ txn.txn_type \in {"DEPOSIT", "WITHDRAWAL", "TRANSFER"}
        /\ txn.account_id \in Range(accounts)
        /\ (txn.related_account # None =>
              /\ txn.txn_type = "TRANSFER"
              /\ txn.related_account # txn.account_id
              /\ txn.related_account \in Range(accounts))
        /\ ((txn.txn_type = "TRANSFER" /\ Len(accounts) >= 2) =>
              txn.related_account # None)

\* C14 witness: a TRANSFER built on a pool of two accounts, with the other
\* account as counterparty
C14_Witness ==
    /\ Len(accounts) = 2
    /\ txn # NoTxn
    /\ txn.txn_type = "TRANSFER"
    /\ txn.account_id = accounts[2]
    /\ txn.related_account = accounts[1]

\* C19: with exactly one account in the pool a TRANSFER can be drawn, it is
\* passed to the insert with kind TRANSFER and related_account_id None, and
\* it counts like any other transaction: every pass of the loop inserts one
\* row, whatever its kind, until NUM_TRANSACTIONS are inserted.
C19_LoneAccountTransfer ==
    /\ [](Len(accounts) = 1 =>
            /\ [account_id |-> accounts[1], txn_type |-> "TRANSFER",
                 related_account |-> None] \in GeneratedTxns(accounts)
            /\ (txn # NoTxn => txn.related_account = None
                                /\ txn.account_id = accounts[1]))
    /\ [](txns <= 50 /\ (pc = "run" /\ txns < 50 => GeneratedTxns(accounts) # {}))
    /\ [][(txn # NoTxn /\ pc' = "run") =>
            /\ txns' = txns + 1
            /\ sessions'[cur].pend[iteration].t = sessions[cur].pend[iteration].t + 1]_vars
    /\ [][txn' # txn => txn = NoTxn \/ txn' = NoTxn]_vars

\* C19 witness: pool of one account, 49 transactions inserted and the 50th
\* built is a TRANSFER without counterparty
C19_Witness ==
    /\ Len(accounts) = 1
    /\ pc = "run"
    /\ txns = 49
    /\ txn = [account_id |-> accounts[1], txn_type |-> "TRANSFER",
               related_account |-> None]

\* C15: random_money returns v with exactly two fractional digits,
\* min <= v <= max, v <= s and s - v < 0.01 for the sample s: the digits
\* below the cent are dropped, never rounded up (12.347 gives 12.34).
C15_RandomMoneyTruncates ==
    money # NoMoney =>
        /\ money % SubCent = 0
        /\ min_val * SubCent <= money
        /\ money <= max_val * SubCent
        /\ money <= val
        /\ val - money < SubCent
        /\ (val = 12347 => money = 12340)

\* C15 witness: random_money(12.34, 12.35) sampled 12.347 and returned 12.34
C15_Witness ==
    /\ min_val = 1234
    /\ max_val = 1235
    /\ val = 12347
    /\ money = 12340

\* POST number k got a connection-level failure
ConnFailure(k) == posts[k].kind \in {"ConnectionError", "Timeout"}

\* POST number k got HTTP 201 or 409
Accepted(k) == posts[k].kind = "response" /\ posts[k].status \in {201, 409}

\* C16: create_connector returns True exactly when a POST got HTTP 201 or
\* 409; a POST that got any other status or a non-connection request error
\* is the last POST and makes it return False; the process exits 0 on True
\* and 1 on False.
C16_RegistrarOutcome ==
    /\ (success = "True" <=> \E k \in 1..Len(posts) : Accepted(k))
    /\ \A k \in 1..Len(posts) :
          ~ConnFailure(k) =>
              /\ k = Len(posts)
              /\ rpc \in {"returned", "exited"}
              /\ (~Accepted(k) => success = "False")
    /\ (rpc \in {"returned", "exited"} => success \in {"True", "False"})
    /\ (rpc = "exited" => /\ (success = "True" => rexit = 0)
                          /\ (success = "False" => rexit = 1))
    /\ (rpc # "exited" => rexit = NoExit)

\* C16 witness: two connection failures, then HTTP 409: exit status 0
C16_Witness ==
    /\ rpc = "exited"
    /\ Len(posts) = 3
    /\ posts[3] = [kind |-> "response", status |-> 409]
    /\ success = "True"
    /\ rexit = 0

\* C17: create_connector makes at most `retries` POSTs, each POST but the
\* last got a connection-level failure, after `retries` such failures it
\* returns False, and it always terminates.
C17_RegistrarRetryBound ==
    /\ [](Len(posts) <= 5 /\ rattempt <= 5)
    /\ [](\A k \in 1..Len(posts) : k < Len(posts) => ConnFailure(k))
    /\ [](rpc = "post" => Len(posts) = rattempt - 1)
    /\ []((rpc \in {"returned", "exited"}
            /\ \A k \in 1..Len(posts) : ConnFailure(k)) =>
              Len(posts) = 5 /\ success = "False")
    /\ <>(rpc = "exited")

\* C17 witness: five connection-level failures, failure returned, exit 1
C17_Witness ==
    /\ rpc = "exited"
    /\ Len(posts) = 5
    /\ \A k \in 1..5 : ConnFailure(k)
    /\ success = "False"
    /\ rexit = 1

====
